---- MODULE Spec2Model ----
(***************************************************************************)
(* Thermostat controller of src/main.cpp (Wemos D1 mini, ESP8266):         *)
(* hysteresis decision, relay command with its safety watchdog, setpoint   *)
(* persistence, remote setpoint adoption, sleep rendezvous and the         *)
(* connectivity management of loop().                                      *)
(*                                                                         *)
(* Numbers.                                                                *)
(*  - Temperatures and setpoints are single-precision floats in the code.  *)
(*    A float is held here as the integer number of quanta of 2^-21 degC   *)
(*    it is equal to: every float in [4, 64) is a whole number of quanta   *)
(*    (ulp 2^-21 in [4,8), 2^-20 in [8,16), 2^-19 in [16,32), 2^-18 in     *)
(*    [32,64)), and so is every sensor reading (a multiple of 1/128).      *)
(*    Decimal numbers of JSON bodies are given in hundredths of a degree   *)
(*    and converted by ParseF32 (round to nearest float, ties to even).    *)
(*  - millis() is an unsigned 32-bit count of milliseconds.  The clock is  *)
(*    held in ticks of 4 ms (millis() / 4) and observed at multiples of    *)
(*    4 ms; every period of the program is a multiple of 4 ms and 2^32 ms  *)
(*    are 2^30 ticks, so unsigned arithmetic is arithmetic modulo 2^30.    *)
(***************************************************************************)
EXTENDS Integers, Sequences, FiniteSets, TLC

VARIABLES s, fn

vars == <<s, fn>>

\* ------------------------------------------------------------ numbers ----

Q == 2^21                      \* quanta per degree Celsius
NaN == 0 - 2^30                \* the value NAN of a float variable
ClockMod == 2^30               \* 2^32 ms in ticks of 4 ms

isnan(x) == x = NaN
isfinite(x) == x # NaN

T(ms) == ms \div 4             \* milliseconds to clock ticks
Tc(ms) == (ms + 3) \div 4       \* the same rounded up: d_ms < ms iff d < Tc(ms)
Since(now, then) == (now - then + ClockMod) % ClockMod   \* uint32 now - then
ClockAdd(now, d) == (now + d) % ClockMod                 \* uint32 now + d

Abs(x) == IF x < 0 THEN 0 - x ELSE x

\* Event counters of the observation fields saturate at MaxCount.
MaxCount == 3
Inc(n) == IF n < MaxCount THEN n + 1 ELSE n
NoTime == 0 - 1                \* "never" in an observation field holding a time

\* Nearest multiple of u to the rational num/den (num >= 0), ties to the
\* even multiple: IEEE-754 round-to-nearest-even on a grid of spacing u.
RoundTo(num, den, u) ==
    LET d == den * u
        q == num \div d
        r == num % d
    IN  IF 2 * r < d THEN q * u
        ELSE IF 2 * r > d THEN (q + 1) * u
        ELSE IF q % 2 = 0 THEN q * u ELSE (q + 1) * u

\* ulp of single precision, in quanta, of a value |n| quanta (1 below 8 degC:
\* below 4 degC the floats are finer than a quantum and whole quanta exact).
Ulp(n) ==
    IF Abs(n) < 8 * Q THEN 1
    ELSE IF Abs(n) < 16 * Q THEN 2
    ELSE IF Abs(n) < 32 * Q THEN 4
    ELSE 8

\* The float result of an exact sum or difference n of two floats.
RoundF32(n) == IF n < 0 THEN 0 - RoundTo(0 - n, 1, Ulp(n)) ELSE RoundTo(n, 1, Ulp(n))

\* JSON number c/100 (c in 0..4095) read into a float variable.
ParseF32(c) == RoundTo(c * (Q \div 4), 25, Ulp((c * (Q \div 4)) \div 25))

\* Sensor reading of k sixteenths of a degree (12-bit DS18B20): exact.
Sixteenths(k) == k * (Q \div 16)

\* ----------------------------------------------------------- constants ---

HTTP_MIN_INTERVAL_MS == 1500
FS_WRITE_MIN_GAP_MS == 30000
CTL_PERIOD_MS == 200
CMD_UPDATE_MS == 60000
WATCHDOG_ON_MS == 3600000
WATCHDOG_OFF_MS == 1800000
STA_RETRY_MS == 120000
AP_CHECK_MS == 2000
TCONV_MS == 750
AP_CHANNEL == 1

\* fabsf(d) >= SP_EPS, SP_EPS = 0.05f = 104857.6016 quanta, d a whole number
\* of quanta: d >= 104858.
SP_EPS_Q == 104858
\* HYST_BAND_C * 0.5f = 0.25 exactly.
HALF_BAND_Q == 524288
\* temp >= 19.8 (a double, 41523609.6000000015 quanta): temp >= 41523610.
CEILING_Q == 41523610
\* 5.0f, 10.0f, 15.0f, 19.0f, 35.0f
SP_MIN_Q == 10485760
SP_MAX_Q == 73400320
SP_OFF_Q == 20971520
SP_AWAY_Q == 31457280
SP_ON_Q == 39845888
\* DEVICE_DISCONNECTED_C = -127, and the DS18B20 range -55..125
DEVICE_DISCONNECTED_Q == 0 - 127 * Q
T_LOW_Q == 0 - 55 * Q
T_HIGH_Q == 125 * Q

\* --------------------------------------------------------- hysteresis ----

\* apply_hysteresis with "temp <= on_th": the comparison of the header comment
apply_hysteresis_le(temp, sp, prev) ==
    LET on_th == RoundF32(sp - HALF_BAND_Q)
        off_th == RoundF32(sp + HALF_BAND_Q)
    IN  IF temp >= CEILING_Q THEN 0
        ELSE IF temp <= on_th THEN 1
        ELSE IF temp >= off_th THEN 0
        ELSE prev

apply_hysteresis(temp, sp, prev) ==
    LET on_th == RoundF32(sp - HALF_BAND_Q)
        off_th == RoundF32(sp + HALF_BAND_Q)
    IN  IF temp >= CEILING_Q THEN 0
        ELSE IF temp < on_th THEN 1
        ELSE IF temp > off_th THEN 0
        ELSE prev

getActiveSetpoint(m) == IF m.g_fixedEnabled THEN m.g_fixedSetpoint ELSE SP_ON_Q

\* SetpointState: value, preset, enabled (lines 69-71)
SetpointState(m) == <<m.g_fixedSetpoint, m.g_fixedPreset, m.g_fixedEnabled>>

\* -------------------------------------------------------- persistence ----
\* The setpoint record /fixed_setpoint.json: exists (the file is there),
\* valid (it parses as JSON), setpoint (the float its "setpoint" reads as,
\* NaN when the key is missing), preset ("" when missing), enabled.

NoFile == [exists |-> FALSE, valid |-> FALSE, setpoint |-> NaN, preset |-> "", enabled |-> TRUE]

\* loadFixedSetpoint() taking the record's setpoint whatever its value
loadFixedSetpoint_noRange(f) ==
    IF ~f.exists \/ ~f.valid
    THEN [g_fixedSetpoint |-> SP_ON_Q, g_fixedPreset |-> "on", g_fixedEnabled |-> TRUE]
    ELSE [g_fixedSetpoint |-> IF isnan(f.setpoint) THEN SP_ON_Q ELSE f.setpoint,
          g_fixedPreset |-> IF f.preset = "" THEN "on" ELSE f.preset,
          g_fixedEnabled |-> f.enabled]

\* loadFixedSetpoint(): the three globals it leaves, from the file f.
loadFixedSetpoint(f) ==
    IF ~f.exists \/ ~f.valid
    THEN [g_fixedSetpoint |-> SP_ON_Q, g_fixedPreset |-> "on", g_fixedEnabled |-> TRUE]
    ELSE LET sp == IF isnan(f.setpoint) THEN SP_ON_Q ELSE f.setpoint
         IN  [g_fixedSetpoint |-> IF sp >= SP_MIN_Q /\ sp <= SP_MAX_Q THEN sp ELSE SP_ON_Q,
              g_fixedPreset |-> IF f.preset = "" THEN "on" ELSE f.preset,
              g_fixedEnabled |-> f.enabled]

\* saveFixedSetpoint(): io is what the filesystem does with this write:
\* "ok", "openfail" (open for writing fails, file untouched) or "writefail"
\* (opened and truncated, nothing serialized).  ret is the returned bool;
\* ev.wrote observes a record physically written, ev.wfail a write that
\* failed, write_failed that the last write attempted failed, ev.reattempt a
\* write attempted after one that failed.
saveFixedSetpoint(m, io) ==
    IF io = "openfail"
    THEN [m EXCEPT !.ret = FALSE, !.ev.wfail = TRUE, !.write_failed = TRUE,
                   !.ev.reattempt = m.write_failed]
    ELSE IF io = "writefail"
    THEN [m EXCEPT !.ret = FALSE, !.ev.wfail = TRUE, !.write_failed = TRUE,
                   !.ev.reattempt = m.write_failed,
                   !.fs_fixed = [NoFile EXCEPT !.exists = TRUE]]
    ELSE [m EXCEPT !.ret = TRUE, !.ev.wrote = TRUE, !.write_failed = FALSE,
                   !.ev.reattempt = m.write_failed,
                   !.fs_fixed = [exists |-> TRUE, valid |-> TRUE,
                                 setpoint |-> m.g_fixedSetpoint,
                                 preset |-> m.g_fixedPreset,
                                 enabled |-> m.g_fixedEnabled]]

\* saveFixedSetpointIfNeeded() doing its bookkeeping whatever the write returns
saveFixedSetpointIfNeeded_anyway(m, force, io) ==
    IF ~isnan(m.g_lastSavedSetpoint)
       /\ Abs(m.g_fixedSetpoint - m.g_lastSavedSetpoint) < SP_EPS_Q
    THEN [m EXCEPT !.ret = TRUE]
    ELSE IF ~force /\ Since(m.millis, m.g_lastFsWriteMs) < T(FS_WRITE_MIN_GAP_MS)
    THEN [m EXCEPT !.ret = TRUE]
    ELSE LET w == saveFixedSetpoint(m, io)
         IN  [w EXCEPT !.g_lastSavedSetpoint = w.g_fixedSetpoint,
                       !.g_lastFsWriteMs = w.millis]

saveFixedSetpointIfNeeded(m, force, io) ==
    IF ~isnan(m.g_lastSavedSetpoint)
       /\ Abs(m.g_fixedSetpoint - m.g_lastSavedSetpoint) < SP_EPS_Q
    THEN [m EXCEPT !.ret = TRUE]
    ELSE IF ~force /\ Since(m.millis, m.g_lastFsWriteMs) < T(FS_WRITE_MIN_GAP_MS)
    THEN [m EXCEPT !.ret = TRUE]
    ELSE LET w == saveFixedSetpoint(m, io)
         IN  IF w.ret
             THEN [w EXCEPT !.g_lastSavedSetpoint = w.g_fixedSetpoint,
                            !.g_lastFsWriteMs = w.millis]
             ELSE w

\* ------------------------------------------------------- connectivity ----
\* wifi_link: 0 when the station is not associated (WiFi.status() is not
\* WL_CONNECTED), else the channel of the access point it is associated to.
\* wifi_mode: the radio mode last set by WiFi.mode(); ap_running: the soft
\* access point is up; radio_ch: the channel the radio is on; peer_ch: the
\* channel of the ESP-NOW peer entry.

startApFallback(m, apOk) ==
    IF m.g_apActive THEN m
    ELSE [m EXCEPT !.wifi_mode = "AP_STA",
                   !.ap_running = apOk,
                   !.ap_starts = IF apOk THEN Inc(@) ELSE @,
                   !.g_apActive = apOk,
                   !.radio_ch = AP_CHANNEL,
                   !.ev.softap = IF apOk THEN "ok" ELSE "failed"]

\* setupMDNS(); setupOTA(): both return at once unless the station is up.
bootstrap(m) ==
    IF m.wifi_link = 0 THEN m
    ELSE [m EXCEPT !.bootstraps = Inc(@), !.ev.bootstrap = TRUE]

\* connectWiFi() without the fallback on a failed association
connectWiFi_noFallback(m, link, apOk) ==
    LET a == [m EXCEPT !.wifi_mode = "STA", !.ap_running = FALSE,
                       !.wifi_link = link,
                       !.radio_ch = IF link > 0 THEN link ELSE @]
    IN  IF link > 0 THEN [a EXCEPT !.g_apActive = FALSE] ELSE a

\* connectWiFi(): link is the outcome of the 15 s association wait.
connectWiFi(m, link, apOk) ==
    LET a == [m EXCEPT !.wifi_mode = "STA", !.ap_running = FALSE,
                       !.wifi_link = link,
                       !.radio_ch = IF link > 0 THEN link ELSE @]
    IN  IF link > 0 THEN [a EXCEPT !.g_apActive = FALSE]
        ELSE startApFallback(a, apOk)

\* ------------------------------------------------------------- oracle ----
\* resp is what the HTTPS GET meets: kind "begin" (https.begin fails), "get"
\* (GET returns code <= 0: timeout, connection failure), "status" (a code
\* other than 200), "parse" (the body is not JSON) or "json"; for "json", ok
\* is doc["ok"] | false, setpoint and actual are the numbers in hundredths of
\* a degree, -1 when the key is absent or not a number, and mode the string.

NoResp == [kind |-> "get", ok |-> FALSE, mode |-> "", setpoint |-> 0 - 1, actual |-> 0 - 1]

JsonF32(c) == IF c < 0 THEN NaN ELSE ParseF32(c)

\* cesanaReportAndFetch adopting on a strictly larger difference only
adoptRemote_gt(m, io) ==
    IF m.g_remoteOk /\ ~isnan(m.g_remoteSetpoint)
       /\ m.g_remoteSetpoint >= SP_MIN_Q /\ m.g_remoteSetpoint <= SP_MAX_Q
       /\ Abs(m.g_remoteSetpoint - m.g_fixedSetpoint) > SP_EPS_Q
    THEN LET a == [m EXCEPT !.g_fixedSetpoint = m.g_remoteSetpoint,
                            !.g_fixedPreset = "remote",
                            !.g_fixedEnabled = TRUE,
                            !.ev.adopted = TRUE]
         IN  saveFixedSetpointIfNeeded(a, TRUE, io)
    ELSE m

\* "Apply remote setpoint if provided" (lines 789-800)
adoptRemote(m, io) ==
    IF m.g_remoteOk /\ ~isnan(m.g_remoteSetpoint)
       /\ m.g_remoteSetpoint >= SP_MIN_Q /\ m.g_remoteSetpoint <= SP_MAX_Q
       /\ Abs(m.g_remoteSetpoint - m.g_fixedSetpoint) >= SP_EPS_Q
    THEN LET a == [m EXCEPT !.g_fixedSetpoint = m.g_remoteSetpoint,
                            !.g_fixedPreset = "remote",
                            !.g_fixedEnabled = TRUE,
                            !.ev.adopted = TRUE]
         IN  saveFixedSetpointIfNeeded(a, TRUE, io)
    ELSE m

\* RemoteState: the values derived from the oracle's last answer (lines 88-93)
RemoteState(m) ==
    <<m.g_remoteOk, m.g_remoteMode, m.g_remoteSetpoint, m.g_remoteActual,
      m.g_remoteHeating, m.g_remoteDelta>>

\* cesanaReportAndFetch making the request whatever the link and the AP
cesanaReportAndFetch_anyLink(m, tempC, heatingFromAck, resp, io) ==
    LET r == [m EXCEPT !.ev.http = "sent", !.ev.cald = heatingFromAck,
                       !.ev.rsp = resp,
                       !.http_gap = IF m.http_last = NoTime THEN NoTime
                                    ELSE Since(m.millis, m.http_last),
                       !.http_last = m.millis]
    IN  IF resp.kind # "json" THEN [r EXCEPT !.ret = FALSE]
        ELSE LET sp == JsonF32(resp.setpoint)
                 ac == JsonF32(resp.actual)
                 both == ~isnan(sp) /\ ~isnan(ac)
                 g == [r EXCEPT !.g_remoteOk = resp.ok,
                                !.g_remoteMode = resp.mode,
                                !.g_remoteSetpoint = sp,
                                !.g_remoteActual = ac,
                                !.g_remoteHeating = both /\ ac < sp,
                                !.g_remoteDelta = IF both THEN RoundF32(ac - sp) ELSE NaN]
                 a == adoptRemote(g, io)
             IN  [a EXCEPT !.ret = a.g_remoteOk]

cesanaReportAndFetch(m, tempC, heatingFromAck, resp, io) ==
    IF m.wifi_link = 0 \/ m.g_apActive
    THEN [m EXCEPT !.ret = FALSE, !.ev.http = "skipped"]
    ELSE LET r == [m EXCEPT !.ev.http = "sent", !.ev.cald = heatingFromAck,
                            !.ev.rsp = resp,
                            !.http_gap = IF m.http_last = NoTime THEN NoTime
                                         ELSE Since(m.millis, m.http_last),
                            !.http_last = m.millis]
         IN  IF resp.kind # "json" THEN [r EXCEPT !.ret = FALSE]
             ELSE LET sp == JsonF32(resp.setpoint)
                      ac == JsonF32(resp.actual)
                      both == ~isnan(sp) /\ ~isnan(ac)
                      g == [r EXCEPT !.g_remoteOk = resp.ok,
                                     !.g_remoteMode = resp.mode,
                                     !.g_remoteSetpoint = sp,
                                     !.g_remoteActual = ac,
                                     !.g_remoteHeating = both /\ ac < sp,
                                     !.g_remoteDelta = IF both THEN RoundF32(ac - sp) ELSE NaN]
                      a == adoptRemote(g, io)
                  IN  [a EXCEPT !.ret = a.g_remoteOk]

\* ------------------------------------------------------- web handlers ----
\* req of POST /api/fixed: kind "nobody" (no body), "parse" (not JSON) or
\* "json"; for "json", preset is in["preset"] | "" and setpoint the number in
\* hundredths of a degree, -1 when absent.  web is the response sent.

applyPreset(m, p) ==
    IF p = "off" THEN [m EXCEPT !.g_fixedSetpoint = SP_OFF_Q, !.g_fixedPreset = "off",
                                !.g_fixedEnabled = TRUE, !.ret = TRUE]
    ELSE IF p = "on" THEN [m EXCEPT !.g_fixedSetpoint = SP_ON_Q, !.g_fixedPreset = "on",
                                    !.g_fixedEnabled = TRUE, !.ret = TRUE]
    ELSE IF p = "away" THEN [m EXCEPT !.g_fixedSetpoint = SP_AWAY_Q, !.g_fixedPreset = "away",
                                      !.g_fixedEnabled = TRUE, !.ret = TRUE]
    ELSE [m EXCEPT !.ret = FALSE]

Reply(m, code, ok) ==
    [m EXCEPT !.web = [status |-> code, ok |-> ok, setpoint |-> m.g_fixedSetpoint,
                       preset |-> m.g_fixedPreset, enabled |-> m.g_fixedEnabled]]

\* handlePostFixed() leaving the preset name on a numeric setpoint
handlePostFixed_keepsName(m, req, io) ==
    IF req.kind # "json" THEN Reply(m, 400, FALSE)
    ELSE LET c == IF req.preset # "" THEN applyPreset(m, req.preset)
                  ELSE LET sp == JsonF32(req.setpoint)
                       IN  IF ~isnan(sp) /\ sp >= SP_MIN_Q /\ sp <= SP_MAX_Q
                           THEN [m EXCEPT !.g_fixedSetpoint = sp,
                                          !.g_fixedEnabled = TRUE, !.ret = TRUE]
                           ELSE [m EXCEPT !.ret = FALSE]
         IN  IF ~c.ret THEN Reply(c, 422, FALSE)
             ELSE LET w == saveFixedSetpoint(c, io)
                  IN  Reply(w, IF w.ret THEN 200 ELSE 500, w.ret)

\* handlePostFixed() switching the fixed setpoint off on a body it rejects
handlePostFixed_disables(m, req, io) ==
    IF req.kind # "json" THEN Reply(m, 400, FALSE)
    ELSE LET c == IF req.preset # "" THEN applyPreset(m, req.preset)
                  ELSE LET sp == JsonF32(req.setpoint)
                       IN  IF ~isnan(sp) /\ sp >= SP_MIN_Q /\ sp <= SP_MAX_Q
                           THEN [m EXCEPT !.g_fixedSetpoint = sp, !.g_fixedPreset = "custom",
                                          !.g_fixedEnabled = TRUE, !.ret = TRUE]
                           ELSE [m EXCEPT !.g_fixedEnabled = FALSE, !.ret = FALSE]
         IN  IF ~c.ret THEN Reply(c, 422, FALSE)
             ELSE LET w == saveFixedSetpoint(c, io)
                  IN  Reply(w, IF w.ret THEN 200 ELSE 500, w.ret)

handlePostFixed(m, req, io) ==
    IF req.kind # "json" THEN Reply(m, 400, FALSE)
    ELSE LET c == IF req.preset # "" THEN applyPreset(m, req.preset)
                  ELSE LET sp == JsonF32(req.setpoint)
                       IN  IF ~isnan(sp) /\ sp >= SP_MIN_Q /\ sp <= SP_MAX_Q
                           THEN [m EXCEPT !.g_fixedSetpoint = sp, !.g_fixedPreset = "custom",
                                          !.g_fixedEnabled = TRUE, !.ret = TRUE]
                           ELSE [m EXCEPT !.ret = FALSE]
         IN  IF ~c.ret THEN Reply(c, 422, FALSE)
             ELSE LET w == saveFixedSetpoint(c, io)
                  IN  Reply(w, IF w.ret THEN 200 ELSE 500, w.ret)

\* GET /api/fixed (lines 817-826): the reply has no "ok" key (ok FALSE here).
handleGetFixed(m) ==
    [Reply(m, 200, FALSE) EXCEPT !.ev.get = TRUE]

\* GET /api/status (lines 919-983): the reply, of which the epoch and the
\* station's ssid, ip and rssi are left out.  late is the number of
\* milliseconds of the clock past its tick when the handler reads it, so
\* that ackAgeMs is in milliseconds; ackAgeMs is -1 when the key is absent.
NoStatus == [sent |-> FALSE, temp |-> NaN, setpoint |-> NaN, preset |-> "", action |-> 0,
             ackAvailable |-> FALSE, ackAgeMs |-> 0 - 1, remoteSetpoint |-> NaN,
             remoteMode |-> "", remoteActual |-> NaN, remoteHeating |-> FALSE,
             remoteDelta |-> NaN, connected |-> FALSE, ap |-> FALSE]

handleStatus(m, late) ==
    [m EXCEPT !.ev.status =
        [sent |-> TRUE,
         temp |-> m.g_lastTempC,
         setpoint |-> getActiveSetpoint(m),
         preset |-> m.g_fixedPreset,
         action |-> IF m.g_haveAck THEN (IF m.g_ackRelayOn THEN 1 ELSE 0) ELSE m.g_lastAction,
         ackAvailable |-> m.g_haveAck,
         ackAgeMs |-> IF m.g_haveAck THEN 4 * Since(m.millis, m.g_ackLastMs) + late ELSE 0 - 1,
         remoteSetpoint |-> m.g_remoteSetpoint,
         remoteMode |-> m.g_remoteMode,
         remoteActual |-> m.g_remoteActual,
         remoteHeating |-> m.g_remoteHeating,
         remoteDelta |-> m.g_remoteDelta,
         connected |-> m.wifi_link > 0,
         ap |-> m.g_apActive]]

ACK_FRESH_MS == 5000

\* The status page's badge with an ACK of the limit age already stale
ackFresh_lt(j) ==
    LET hasAck == j.ackAvailable
        age == IF j.ackAgeMs >= 0 THEN j.ackAgeMs ELSE 0
    IN  hasAck /\ age < ACK_FRESH_MS

\* ackFresh of the status page's script (lines 398-404), on the reply j
ackFresh(j) ==
    LET hasAck == j.ackAvailable
        age == IF j.ackAgeMs >= 0 THEN j.ackAgeMs ELSE 0
    IN  hasAck /\ age <= ACK_FRESH_MS

\* -------------------------------------------------------------- relay ----
\* msg of onDataRecv: json (the payload parses), ok (doc["ok"] | false),
\* relay (doc["relay"] | -1), ack (doc["ack"], "" when absent).

NoMsg == [json |-> FALSE, ok |-> FALSE, relay |-> 0 - 1, ack |-> ""]

\* onDataRecv() not looking at ok
onDataRecv_noOk(m, msg) ==
    IF ~msg.json THEN m
    ELSE IF msg.relay < 0 THEN m
    ELSE [m EXCEPT !.g_haveAck = TRUE,
                   !.g_ackRelayOn = (msg.relay = 1) \/ (msg.ack = "ON"),
                   !.g_ackLastMs = m.millis]

onDataRecv(m, msg) ==
    IF ~msg.json THEN m
    ELSE IF ~msg.ok \/ msg.relay < 0 THEN m
    ELSE [m EXCEPT !.g_haveAck = TRUE,
                   !.g_ackRelayOn = (msg.relay = 1) \/ (msg.ack = "ON"),
                   !.g_ackLastMs = m.millis]

\* ------------------------------------------------------------- sensor ----

\* ds_try_hotplug(): found is the result of the 1-Wire bus search.
ds_try_hotplug(m, found) == IF found THEN [m EXCEPT !.g_haveSensor = TRUE] ELSE m

\* ds_poll(): reading is what sensors.getTempC() returns if it is called.
\* The result is [m, got, c, read]: the state, the returned bool, outC, and
\* whether the sensor was read ("none", "ok", or "bad" for a rejected value).
ds_poll(m, reading) ==
    IF ~m.g_haveSensor THEN [m |-> m, got |-> FALSE, c |-> NaN, read |-> "none"]
    ELSE IF ~m.g_dsPending
    THEN [m |-> [m EXCEPT !.g_dsReqAt = m.millis, !.g_dsPending = TRUE],
          got |-> FALSE, c |-> NaN, read |-> "none"]
    ELSE IF Since(m.millis, m.g_dsReqAt) < Tc(TCONV_MS)
    THEN [m |-> m, got |-> FALSE, c |-> NaN, read |-> "none"]
    ELSE LET r == [m EXCEPT !.g_dsPending = FALSE]
         IN  IF reading = DEVICE_DISCONNECTED_Q \/ reading < T_LOW_Q \/ reading > T_HIGH_Q
             THEN [m |-> r, got |-> FALSE, c |-> NaN, read |-> "bad"]
             ELSE [m |-> r, got |-> TRUE, c |-> reading, read |-> "ok"]

\* --------------------------------------------------------------- loop ----
\* in: the inputs one iteration meets: apOk (WiFi.softAP succeeds), found
\* (bus search), reading (sensor), resp (oracle response), io (filesystem).

NoReq == [kind |-> "none", preset |-> "", setpoint |-> 0 - 1]

NoEvents == [tick |-> FALSE, read |-> "none", update |-> FALSE, trip |-> FALSE,
             http |-> "none", cald |-> FALSE, rsp |-> NoResp, adopted |-> FALSE,
             sleep |-> FALSE, wrote |-> FALSE, recv |-> FALSE, rx |-> NoMsg,
             status |-> NoStatus, late |-> 0,
             boot |-> FALSE, loop |-> FALSE, bootstrap |-> FALSE, retry |-> FALSE,
             softap |-> "none", post |-> FALSE, req |-> NoReq, wfail |-> FALSE,
             reattempt |-> FALSE, get |-> FALSE]

\* Connectivity management (lines 1386-1429)
connectivity(m, in) ==
    LET sta == m.wifi_link > 0
        b == IF sta /\ ~m.prevSta
             THEN [bootstrap(m) EXCEPT !.g_apActive = FALSE]
             ELSE m
        c == IF ~sta /\ ~b.g_apActive THEN startApFallback(b, in.apOk) ELSE b
        d == IF ~sta /\ Since(c.millis, c.lastStaRetryMs) >= T(STA_RETRY_MS)
             THEN [c EXCEPT !.lastStaRetryMs = c.millis,
                            !.wifi_mode = "STA",
                            !.ap_running = FALSE,
                            !.sta_retries = Inc(@),
                            !.ev.retry = TRUE]
             ELSE c
    IN  [d EXCEPT !.prevSta = sta]

\* The decision with ON for an invalid sample
decide_invalidOn(m, in) ==
    LET h == IF ~m.g_haveSensor THEN ds_try_hotplug(m, in.found) ELSE m
        p == ds_poll(h, in.reading)
        g == [p.m EXCEPT !.ev.read = p.read]
        f == IF p.got THEN [g EXCEPT !.g_lastTempC = p.c] ELSE g
        haveTemp == isfinite(f.g_lastTempC)
        action == IF haveTemp
                  THEN apply_hysteresis(f.g_lastTempC, getActiveSetpoint(f), f.g_lastAction)
                  ELSE 1
    IN  [f EXCEPT !.g_lastAction = action]

\* The decision of the control tick (lines 1445-1470)
decide(m, in) ==
    LET h == IF ~m.g_haveSensor THEN ds_try_hotplug(m, in.found) ELSE m
        p == ds_poll(h, in.reading)
        g == [p.m EXCEPT !.ev.read = p.read]
        f == IF p.got THEN [g EXCEPT !.g_lastTempC = p.c] ELSE g
        haveTemp == isfinite(f.g_lastTempC)
        action == IF haveTemp
                  THEN apply_hysteresis(f.g_lastTempC, getActiveSetpoint(f), f.g_lastAction)
                  ELSE 0
    IN  [f EXCEPT !.g_lastAction = action]

\* The command update with a shortened cooldown
commandUpdate_short(m) ==
    LET a == IF m.azione = "ON"
             THEN LET o == IF m.onStartMs = 0 THEN m.millis ELSE m.onStartMs
                      trip == ~m.forcedOff /\ Since(m.millis, o) >= T(WATCHDOG_ON_MS)
                  IN  [m EXCEPT !.onStartMs = o,
                                !.forcedOff = @ \/ trip,
                                !.forcedOffUntil =
                                    IF trip THEN ClockAdd(m.millis, T(WATCHDOG_OFF_MS) - T(CMD_UPDATE_MS) - T(CMD_UPDATE_MS)) ELSE @,
                                !.ev.trip = trip,
                                !.trip_at = IF trip THEN m.millis ELSE @]
             ELSE [m EXCEPT !.onStartMs = 0]
        b == IF a.forcedOff
             THEN IF a.millis >= a.forcedOffUntil
                  THEN [a EXCEPT !.forcedOff = FALSE]
                  ELSE [a EXCEPT !.azione = "OFF"]
             ELSE [a EXCEPT !.azione = IF a.g_lastAction = 1 THEN "ON" ELSE "OFF"]
    IN  [b EXCEPT !.timerAction = b.millis, !.ev.update = TRUE,
                  !.upd_gap = IF m.upd_last = NoTime THEN NoTime ELSE Since(m.millis, m.upd_last),
                  !.upd_last = m.millis]

\* The command update of every minute (lines 1482-1518): safety logic, the
\* choice of azione, timerAction.  trip_at, upd_last and upd_gap observe it:
\* the time the watchdog last tripped, the time of the last update and the
\* time between the last two updates.
commandUpdate(m) ==
    LET a == IF m.azione = "ON"
             THEN LET o == IF m.onStartMs = 0 THEN m.millis ELSE m.onStartMs
                      trip == ~m.forcedOff /\ Since(m.millis, o) >= T(WATCHDOG_ON_MS)
                  IN  [m EXCEPT !.onStartMs = o,
                                !.forcedOff = @ \/ trip,
                                !.forcedOffUntil =
                                    IF trip THEN ClockAdd(m.millis, T(WATCHDOG_OFF_MS)) ELSE @,
                                !.ev.trip = trip,
                                !.trip_at = IF trip THEN m.millis ELSE @]
             ELSE [m EXCEPT !.onStartMs = 0]
        b == IF a.forcedOff
             THEN IF a.millis >= a.forcedOffUntil
                  THEN [a EXCEPT !.forcedOff = FALSE]
                  ELSE [a EXCEPT !.azione = "OFF"]
             ELSE [a EXCEPT !.azione = IF a.g_lastAction = 1 THEN "ON" ELSE "OFF"]
    IN  [b EXCEPT !.timerAction = b.millis, !.ev.update = TRUE,
                  !.upd_gap = IF m.upd_last = NoTime THEN NoTime ELSE Since(m.millis, m.upd_last),
                  !.upd_last = m.millis]

\* esp_now_send of {"heater": azione, "id": 12} (lines 1521-1528).  tx_last,
\* tx_gap, tx_val and on_since observe the transmissions: the time of the
\* last one, the time between the last two, the value of the last one and
\* the time of the first of the unbroken run of ON the last one belongs to;
\* trip_at is forgotten by the first transmission 1800 s or more after it.
relaySend(m) ==
    [m EXCEPT !.tx_gap = IF m.tx_last = NoTime THEN NoTime ELSE Since(m.millis, m.tx_last),
              !.tx_last = m.millis,
              !.tx_val = m.azione,
              !.trip_at = IF @ # NoTime /\ Since(m.millis, @) >= T(WATCHDOG_OFF_MS)
                          THEN NoTime ELSE @,
              !.on_since = IF m.azione # "ON" THEN NoTime
                           ELSE IF m.tx_val = "ON" /\ @ # NoTime THEN @ ELSE m.millis]

\* The relay block transmitting only when it updates the command
relayBlock_sendOnUpdate(m) ==
    LET i == IF m.timerAction = NoTime THEN [m EXCEPT !.timerAction = m.millis] ELSE m
    IN  IF Since(i.millis, i.timerAction) > T(CMD_UPDATE_MS) THEN relaySend(commandUpdate(i)) ELSE i

\* ESP-NOW TX to relay (lines 1472-1529)
relayBlock(m) ==
    LET i == IF m.timerAction = NoTime THEN [m EXCEPT !.timerAction = m.millis] ELSE m
        u == IF Since(i.millis, i.timerAction) > T(CMD_UPDATE_MS) THEN commandUpdate(i) ELSE i
    IN  relaySend(u)

\* HTTPS report with the sleep test not asking for the oracle's ok
reportBlock_anyReply(m, in) ==
    IF isfinite(m.g_lastTempC) /\ Since(m.millis, m.g_lastHttpMs) >= T(HTTP_MIN_INTERVAL_MS)
    THEN LET heatingForReport == IF m.g_haveAck THEN m.g_ackRelayOn ELSE m.g_lastAction = 1
             c == cesanaReportAndFetch(m, m.g_lastTempC, heatingForReport, in.resp, in.io)
             d == [c EXCEPT !.g_lastHttpMs = c.millis]
         IN  IF d.sleepModeActive /\ d.sleepWaitingRemote
             THEN [d EXCEPT !.power = "sleep", !.ev.sleep = TRUE]
             ELSE d
    ELSE m

\* HTTPS report and the deep sleep rendezvous (lines 1531-1545)
reportBlock(m, in) ==
    IF isfinite(m.g_lastTempC) /\ Since(m.millis, m.g_lastHttpMs) >= T(HTTP_MIN_INTERVAL_MS)
    THEN LET heatingForReport == IF m.g_haveAck THEN m.g_ackRelayOn ELSE m.g_lastAction = 1
             c == cesanaReportAndFetch(m, m.g_lastTempC, heatingForReport, in.resp, in.io)
             ok == c.ret
             d == [c EXCEPT !.g_lastHttpMs = c.millis]
         IN  IF d.sleepModeActive /\ d.sleepWaitingRemote /\ ok
             THEN [d EXCEPT !.power = "sleep", !.ev.sleep = TRUE]
             ELSE d
    ELSE m

\* Periodic AP-availability check (lines 1547-1557); sta is the link status
\* read at the top of the iteration.
apCheck(m, in, sta) ==
    IF Since(m.millis, m.lastApChk) > T(AP_CHECK_MS)
    THEN LET c == [m EXCEPT !.lastApChk = m.millis]
         IN  IF ~sta /\ ~c.g_apActive THEN startApFallback(c, in.apOk) ELSE c
    ELSE m

\* Power-saving mode based on setpoint (lines 1559-1581)
sleepFlags(m) ==
    IF getActiveSetpoint(m) <= SP_OFF_Q
    THEN IF ~m.sleepModeActive
         THEN [m EXCEPT !.sleepModeActive = TRUE, !.sleepWaitingRemote = TRUE]
         ELSE m
    ELSE [m EXCEPT !.sleepModeActive = FALSE, !.sleepWaitingRemote = FALSE]

\* The control tick (lines 1441-1582).  ESP.deepSleep() does not return: the
\* rest of the tick is not executed once power is "sleep".
controlTick(m, in, sta) ==
    LET t == [m EXCEPT !.tCtl = m.millis, !.ev.tick = TRUE]
        d == decide(t, in)
        r == relayBlock(d)
        h == reportBlock(r, in)
    IN  IF h.power = "sleep" THEN h
        ELSE sleepFlags(apCheck(h, in, sta))

\* loop() (lines 1377-1583), after server.handleClient().
loop(m, in) ==
    LET e == [m EXCEPT !.ev = [NoEvents EXCEPT !.loop = TRUE]]
        c == connectivity(e, in)
        k == IF Since(c.millis, c.tCtl) > T(CTL_PERIOD_MS)
             THEN controlTick(c, in, m.wifi_link > 0)
             ELSE c
    IN  [k EXCEPT !.ret = FALSE, !.link_seen = m.wifi_link > 0]

\* ---------------------------------------------------------------- boot ----
\* The values of the globals and of the statics of loop() at program start
\* (lines 38-107, 1387-1388, 1440, 1473-1479, 1548), with the persistent and
\* observed parts: the file, the radio, the observation fields (among them
\* http_last and http_gap: the time of the last oracle request and the time
\* between the last two; ack_at and ack_on: the time at which onDataRecv last
\* recorded an ACK and the relayOn it recorded; link_seen: the station was
\* up when the program last looked, in connectWiFi() or in loop()).

Power(file) ==
    [ \* globals
      sleepModeActive |-> FALSE, sleepWaitingRemote |-> FALSE,
      g_haveSensor |-> FALSE, g_dsReqAt |-> 0, g_dsPending |-> FALSE,
      g_fixedSetpoint |-> SP_ON_Q, g_fixedPreset |-> "on", g_fixedEnabled |-> TRUE,
      g_lastTempC |-> NaN, g_lastAction |-> 0,
      g_haveAck |-> FALSE, g_ackRelayOn |-> FALSE, g_ackLastMs |-> 0,
      g_lastHttpMs |-> 0, g_remoteOk |-> FALSE, g_remoteSetpoint |-> NaN,
      g_remoteMode |-> "", g_remoteActual |-> NaN, g_remoteHeating |-> FALSE,
      g_remoteDelta |-> NaN, g_apActive |-> FALSE,
      g_lastSavedSetpoint |-> NaN, g_lastFsWriteMs |-> 0,
      \* statics of loop()
      prevSta |-> FALSE, lastStaRetryMs |-> 0, tCtl |-> 0, timerAction |-> NoTime,
      azione |-> "OFF", onStartMs |-> 0, forcedOff |-> FALSE, forcedOffUntil |-> 0,
      lastApChk |-> 0,
      \* the device and its surroundings
      millis |-> 0, power |-> "run", fs_fixed |-> file,
      wifi_link |-> 0, wifi_mode |-> "STA", ap_running |-> FALSE,
      radio_ch |-> 0, peer_ch |-> 0,
      \* scratch: the bool a called function returned
      ret |-> FALSE,
      \* observation
      ev |-> NoEvents, web |-> [status |-> 0, ok |-> FALSE, setpoint |-> NaN,
                                preset |-> "", enabled |-> FALSE],
      tx_last |-> NoTime, tx_gap |-> NoTime, tx_val |-> "none", on_since |-> NoTime,
      upd_last |-> NoTime, upd_gap |-> NoTime, trip_at |-> NoTime,
      http_last |-> NoTime, http_gap |-> NoTime, ack_at |-> NoTime, ack_on |-> FALSE,
      ap_starts |-> 0, bootstraps |-> 0, sta_retries |-> 0, link_seen |-> FALSE,
      write_failed |-> FALSE ]

\* setup() (lines 1294-1358): found is the result of the sensor probe, link
\* the outcome of connectWiFi's wait, upTicks the clock when setup returns.
setup(file, found, link, apOk, upTicks) ==
    LET p == Power(file)
        l == loadFixedSetpoint(file)
        a == [p EXCEPT !.g_fixedSetpoint = l.g_fixedSetpoint,
                       !.g_fixedPreset = l.g_fixedPreset,
                       !.g_fixedEnabled = l.g_fixedEnabled,
                       !.g_lastSavedSetpoint = l.g_fixedSetpoint,
                       !.g_haveSensor = found]
        w == bootstrap(connectWiFi(a, link, apOk))
        ch == IF w.radio_ch <= 0 THEN 1 ELSE w.radio_ch
    IN  [w EXCEPT !.radio_ch = ch, !.peer_ch = ch, !.millis = upTicks,
                  !.link_seen = link > 0, !.ev.boot = TRUE]

\* ------------------------------------------------------------ actions ----

\* In every action, ev is left holding what that step did.

\* One iteration of loop(), dt ticks after the previous step, up to the
\* clock value maxTicks.
Iterate(dt, in, maxTicks) ==
    /\ s.power = "run"
    /\ s.millis + dt <= maxTicks
    /\ s' = loop([s EXCEPT !.millis = ClockAdd(@, dt)], in)
    /\ UNCHANGED fn

\* server.handleClient() dispatching POST /api/fixed (line 1319, 1382)
PostFixed(req, io) ==
    /\ s.power = "run"
    /\ s' = [handlePostFixed([s EXCEPT !.ev = [NoEvents EXCEPT !.post = TRUE, !.req = req]],
                              req, io) EXCEPT !.ret = FALSE]
    /\ UNCHANGED fn

\* The station link comes up on channel ch, or goes down (the radio follows
\* the channel of the access point the station associates to).
LinkUp(ch) ==
    /\ s.power = "run"
    /\ s.wifi_link = 0
    /\ s' = [s EXCEPT !.wifi_link = ch, !.radio_ch = ch, !.ev = NoEvents]
    /\ UNCHANGED fn

LinkDown ==
    /\ s.power = "run"
    /\ s.wifi_link > 0
    /\ s' = [s EXCEPT !.wifi_link = 0, !.ev = NoEvents]
    /\ UNCHANGED fn

\* The relay's message msg arrives: the receive callback registered in
\* setup() (line 1348) runs between two iterations.
Recv(msg) ==
    /\ s.power = "run"
    /\ LET r == onDataRecv([s EXCEPT !.ev = [NoEvents EXCEPT !.recv = TRUE, !.rx = msg]], msg)
           recorded == /\ r.g_haveAck
                       /\ <<r.g_haveAck, r.g_ackRelayOn, r.g_ackLastMs>>
                            # <<s.g_haveAck, s.g_ackRelayOn, s.g_ackLastMs>>
       IN  s' = [r EXCEPT !.ack_at = IF recorded THEN s.millis ELSE @,
                          !.ack_on = IF recorded THEN r.g_ackRelayOn ELSE @]
    /\ UNCHANGED fn

\* server.handleClient() dispatching GET /api/status, late milliseconds
\* after the clock's tick.
Status(late) ==
    /\ s.power = "run"
    /\ s' = handleStatus([s EXCEPT !.ev = [NoEvents EXCEPT !.late = late]], late)
    /\ UNCHANGED fn

\* server.handleClient() dispatching GET /api/fixed (line 1318)
GetFixed ==
    /\ s.power = "run"
    /\ s' = handleGetFixed([s EXCEPT !.ev = NoEvents])
    /\ UNCHANGED fn

\* The deep sleep timer resets the chip: setup() runs again on the file.
Wake(found, link, apOk, upTicks) ==
    /\ s.power = "sleep"
    /\ s' = setup(s.fs_fixed, found, link, apOk, upTicks)
    /\ UNCHANGED fn

\* ------------------------------------------------------------- inputs ----

NoCall == [temp |-> NaN, sp |-> NaN, prev |-> 0, out |-> 0 - 1]
Json(ok, sp, ac) == [kind |-> "json", ok |-> ok, mode |-> "auto", setpoint |-> sp, actual |-> ac]
Preset(p) == [kind |-> "json", preset |-> p, setpoint |-> 0 - 1]
Custom(c) == [kind |-> "json", preset |-> "", setpoint |-> c]
EmptyBody == [NoResp EXCEPT !.kind = "json"]       \* the body {}
Msg(ok, relay, ack) == [json |-> TRUE, ok |-> ok, relay |-> relay, ack |-> ack]
In(found, reading, resp) ==
    [apOk |-> TRUE, found |-> found, reading |-> reading, resp |-> resp, io |-> "ok"]

BootTicks == T(16000)          \* the clock when setup() returns
TickStep == T(204)             \* an iteration that passes the 200 ms gate
IdleStep == T(100)             \* an iteration that does not
Cold == Sixteenths(288)        \* 18.0 degC
Hot == Sixteenths(320)         \* 20.0 degC

\* ------------------------------------------- the hysteresis function ----

HystLoK == 276                 \* 17.25 degC in sixteenths
HystHiK == 324                 \* 20.25 degC
HystTemps == {Sixteenths(k) : k \in HystLoK..HystHiK} \cup {Sixteenths(k) : k \in 120..136}
HystSetpoints == {ParseF32(c) : c \in {500, 790, 795, 1000, 1850, 1900, 1910, 1950, 1955, 2000, 3500}}

InitHyst ==
    /\ s = setup(NoFile, TRUE, 0, TRUE, BootTicks)
    /\ fn \in [temp : HystTemps, sp : HystSetpoints, prev : {0, 1}, out : {0 - 1}]

Decide ==
    /\ fn.out = 0 - 1
    /\ fn' = [fn EXCEPT !.out = apply_hysteresis(fn.temp, fn.sp, fn.prev)]
    /\ UNCHANGED s

NextHyst == Decide

SpecHyst == InitHyst /\ [][NextHyst]_vars

UpdateStep == T(60004)
RelayMaxTicks == 1400000       \* 5600 s of clock
FineBudget == 51

RelayIterate ==
    \E dt \in {UpdateStep}, r \in {Cold, Hot} :
        Iterate(dt, In(TRUE, r, NoResp), RelayMaxTicks)

RelayFineIterate ==
    \E dt \in {TickStep, IdleStep}, r \in {Cold, Hot} :
        /\ ((s.millis - BootTicks) % UpdateStep) + dt <= FineBudget
        /\ Iterate(dt, In(TRUE, r, NoResp), RelayMaxTicks)

RelayPost == \E p \in {"away"} : s.g_fixedPreset # p /\ PostFixed(Preset(p), "ok")

InitRelay ==
    /\ s = setup(NoFile, TRUE, 0, TRUE, BootTicks)
    /\ fn = NoCall

NextRelay == RelayIterate \/ RelayFineIterate \/ RelayPost

SpecRelay == InitRelay /\ [][NextRelay]_vars

\* C2: when a command update finds that the command has been ON without
\* interruption for 3600 s or more, it forces the command OFF: no update
\* leaves the command ON at the end of such a run.
WatchdogOnLimit ==
    ~ ( /\ s.ev.update
        /\ s.tx_val = "ON"
        /\ s.on_since # NoTime
        /\ Since(s.tx_last, s.on_since) >= T(WATCHDOG_ON_MS) )

ResumeAtExpiry ==
    [][ s'.ev.update /\ s.forcedOff /\ s'.millis >= s.forcedOffUntil =>
          /\ ~s'.forcedOff
          /\ s'.tx_val = (IF s'.g_lastAction = 1 THEN "ON" ELSE "OFF")
          /\ s'.onStartMs = 0 ]_vars

\* C33: outside the cooldown a command update trips the watchdog exactly
\* when the command has been ON without interruption, since the send that
\* first carried ON, for 3600 s or more; never while the command is OFF.
OnTimerRule ==
    [][ s'.ev.update /\ ~s.forcedOff =>
          (s'.ev.trip <=> /\ s.tx_val = "ON" /\ s.on_since # NoTime
                          /\ Since(s'.millis, s.on_since) >= T(WATCHDOG_ON_MS)) ]_vars

SendsLatchedValue ==
    [][ s'.ev.tick =>
          IF s'.ev.update
          THEN s'.tx_val = IF s'.trip_at # NoTime THEN "OFF"
                           ELSE IF s'.g_lastAction = 1 THEN "ON" ELSE "OFF"
          ELSE s.tx_val = "none" \/ s'.tx_val = s.tx_val ]_vars

\* ------------------------------------------------------------- sensor ----
\* The station is down from boot; the sensor may be absent at boot and
\* appear later, and reads 18.0 or 20.0 degC, "disconnected" or a value out
\* of range; presets are posted at any time.

ReadStep == T(752)             \* an iteration after the conversion time
SensorMaxTicks == 4800         \* 19.2 s of clock
OutOfRange == Sixteenths(2080) \* 130 degC

SensorIterate ==
    \E dt \in {TickStep, ReadStep}, f \in BOOLEAN,
       r \in {Cold, Hot, DEVICE_DISCONNECTED_Q, OutOfRange} :
        Iterate(dt, In(f, r, NoResp), SensorMaxTicks)

SensorPost == \E p \in {"on", "away"} : s.g_fixedPreset # p /\ PostFixed(Preset(p), "ok")

InitSensor ==
    /\ \E f \in BOOLEAN : s = setup(NoFile, f, 0, TRUE, BootTicks)
    /\ fn = NoCall

NextSensor == SensorIterate \/ SensorPost

SpecSensor == InitSensor /\ [][NextSensor]_vars

\* C4: on a control tick whose sensor read is rejected (disconnected or out
\* of range), the decision is OFF.
SensorLossIsOff == s.ev.tick /\ s.ev.read = "bad" => s.g_lastAction = 0

\* C5: after a control tick that holds no valid sample, the decision is OFF.
NoSampleIsOff == s.ev.tick /\ ~isfinite(s.g_lastTempC) => s.g_lastAction = 0

\* A tick with no valid sample, the sensor present and its read rejected,
\* the setpoint changed since boot.
NoSampleTick ==
    /\ s.ev.tick /\ ~isfinite(s.g_lastTempC) /\ s.ev.read = "bad"
    /\ s.g_fixedPreset = "away" /\ s.g_lastAction = 0

\* ------------------------------------------------- oracle adoption ----
\* The station is up from boot on channel 6; the sensor reads 18.0 degC;
\* the oracle fails or answers, with or without a setpoint; presets and a
\* custom setpoint are posted at any time.

HttpStep == T(1504)            \* an iteration after the oracle's interval
AdoptMaxTicks == 5600          \* 22.4 s of clock
StaChannel == 6

OracleResps ==
    { NoResp,
      [NoResp EXCEPT !.kind = "status"],
      [NoResp EXCEPT !.kind = "parse"],
      EmptyBody,
      Json(TRUE, 0 - 1, 0 - 1),
      Json(FALSE, 2100, 1800),
      Json(TRUE, 2100, 1800),
      Json(TRUE, 1900, 1800),
      Json(TRUE, 1905, 1800),
      Json(TRUE, 1005, 1800),
      Json(TRUE, 4000, 1800) }

PostedValue(req) ==
    IF req.preset = "off" THEN SP_OFF_Q
    ELSE IF req.preset = "on" THEN SP_ON_Q
    ELSE IF req.preset = "away" THEN SP_AWAY_Q
    ELSE JsonF32(req.setpoint)

AdoptIterate ==
    \E rsp \in OracleResps : Iterate(HttpStep, In(TRUE, Cold, rsp), AdoptMaxTicks)

AdoptPost ==
    \E req \in {Preset("off"), Preset("on"), Custom(2100)} :
        /\ s.g_fixedSetpoint # PostedValue(req)
        /\ PostFixed(req, "ok")

InitAdopt ==
    /\ s = setup(NoFile, TRUE, StaChannel, TRUE, BootTicks)
    /\ fn = NoCall

NextAdopt == AdoptIterate \/ AdoptPost

SpecAdopt == InitAdopt /\ [][NextAdopt]_vars

\* C6: after every adoption of an oracle setpoint the persisted record holds
\* the adopted value with preset "remote" (no filesystem write fails here).
AdoptionPersisted ==
    s.ev.adopted =>
        /\ s.fs_fixed.exists /\ s.fs_fixed.valid
        /\ s.fs_fixed.setpoint = s.g_fixedSetpoint
        /\ s.fs_fixed.preset = "remote"

\* C7 as claimed: after a round trip, the setpoint state becomes the
\* response's setpoint with preset "remote" if ok is true and the setpoint
\* is present, within [5,35] and more than 0.05 away from the current
\* setpoint, the numbers compared being the number of the response and the
\* current setpoint; in every other case the setpoint state is unchanged.
AdoptionRuleStrict ==
    [][ s'.ev.http = "sent" =>
          LET r == s'.ev.rsp
              cur == s.g_fixedSetpoint
              cond == /\ r.kind = "json" /\ r.ok
                      /\ r.setpoint >= 500 /\ r.setpoint <= 3500
                      /\ Abs(r.setpoint * (Q \div 4) - 25 * cur) > 5 * (Q \div 4)
          IN  IF cond
              THEN SetpointState(s') = <<s'.g_remoteSetpoint, "remote", TRUE>>
              ELSE SetpointState(s') = SetpointState(s) ]_vars

\* C7 as amended: the same with the difference taken between the values as
\* stored in single precision (more than 0.05 there: fabsf(..) >= 0.05f).
AdoptionRule ==
    [][ s'.ev.http = "sent" =>
          LET r == s'.ev.rsp
              cur == s.g_fixedSetpoint
              cond == /\ r.kind = "json" /\ r.ok
                      /\ r.setpoint >= 500 /\ r.setpoint <= 3500
                      /\ 20 * Abs(s'.g_remoteSetpoint - cur) > Q
          IN  IF cond
              THEN SetpointState(s') = <<s'.g_remoteSetpoint, "remote", TRUE>>
              ELSE SetpointState(s') = SetpointState(s) ]_vars

\* The response 10.05 adopted over the current setpoint 10.0.
AdoptedTenthOff ==
    /\ s.ev.adopted /\ s.ev.rsp.setpoint = 1005
    /\ SetpointState(s) = <<ParseF32(1005), "remote", TRUE>>

\* C17: a round trip that fails (no connection or timeout, a status other
\* than 200, a body that does not parse or that lacks the expected fields)
\* leaves the values derived from the oracle and the setpoint state as they
\* were, and adopts nothing.
FailureKeepsRemote ==
    [][ s'.ev.http = "sent" /\ (s'.ev.rsp.kind # "json" \/ s'.ev.rsp = EmptyBody) =>
          /\ RemoteState(s') = RemoteState(s)
          /\ SetpointState(s') = SetpointState(s)
          /\ ~s'.ev.adopted /\ ~s'.ev.sleep ]_vars

\* -------------------------------------------------------------- sleep ----
\* As above, with the station link dropping and coming back, the chip
\* waking from deep sleep through setup(), and iterations that pass the
\* control gate before the oracle's interval has elapsed.

SleepMaxTicks == 5600
SleepFine == 51

SleepResps == {NoResp, Json(TRUE, 0 - 1, 0 - 1), Json(TRUE, 2100, 1800)}

SleepIterate ==
    \E rsp \in SleepResps : Iterate(HttpStep, In(TRUE, Cold, rsp), SleepMaxTicks)

SleepFineIterate ==
    /\ ((s.millis - BootTicks) % HttpStep) + TickStep <= SleepFine
    /\ Iterate(TickStep, In(TRUE, Cold, NoResp), SleepMaxTicks)

SleepPost ==
    \E req \in {Preset("off"), Preset("on")} :
        /\ s.g_fixedSetpoint # PostedValue(req)
        /\ PostFixed(req, "ok")

SleepLinkUp == LinkUp(StaChannel)

SleepWake == Wake(TRUE, StaChannel, TRUE, BootTicks)

Init ==
    /\ s = setup(NoFile, TRUE, StaChannel, TRUE, BootTicks)
    /\ fn = NoCall

Next == SleepIterate \/ SleepFineIterate \/ SleepPost \/ SleepLinkUp \/ LinkDown \/ SleepWake

Spec == Init /\ [][Next]_vars

\* C8: deep sleep is entered only by an iteration that began with the sleep
\* requested (by an earlier control tick) and in which an oracle request was
\* made and answered with ok; never when the call is skipped or not due.
SleepOnlyAtRendezvous ==
    [][ s.power = "run" /\ s'.power = "sleep" =>
          /\ s.sleepModeActive /\ s.sleepWaitingRemote
          /\ s'.ev.http = "sent"
          /\ s'.ev.rsp.kind = "json" /\ s'.ev.rsp.ok
          /\ s.wifi_link > 0 /\ ~s'.g_apActive ]_vars

\* The device asleep after the rendezvous.
Asleep == s.power = "sleep" /\ s.ev.sleep /\ s.ev.http = "sent"

\* C16: an iteration makes an oracle request only with a valid sample held,
\* the station link up, the AP fallback not active and 1500 ms or more after
\* the request before; an iteration that makes no request leaves the
\* setpoint state and the values derived from the oracle as they were.
OracleGuard ==
    [][ s.power = "run" /\ s'.millis # s.millis =>
          IF s'.ev.http = "sent"
          THEN /\ isfinite(s'.g_lastTempC)
               /\ s.wifi_link > 0 /\ ~s'.g_apActive
               /\ s'.http_gap = NoTime \/ s'.http_gap >= T(HTTP_MIN_INTERVAL_MS)
          ELSE /\ SetpointState(s') = SetpointState(s)
               /\ RemoteState(s') = RemoteState(s) ]_vars

\* A control tick with a sample held and the interval elapsed, whose call is
\* skipped because the station is down, after an answer of the oracle.
OracleSkipped ==
    /\ s.ev.tick /\ s.ev.http = "skipped"
    /\ isfinite(s.g_lastTempC) /\ s.wifi_link = 0 /\ s.g_apActive
    /\ s.g_remoteOk

\* C9: the device does not enter deep sleep while the active setpoint is
\* above 10.
SleepOnlyWhenLow == s.power = "sleep" => getActiveSetpoint(s) <= SP_OFF_Q

\* ---------------------------------------------------- acknowledgement ----
\* The station is up; the sensor reads 18.0 degC (the decision is ON from
\* the first reading on) and the oracle answers ok without a setpoint.  The
\* relay's messages arrive in the first seconds, well-formed or not, with
\* the relay field, the ack field, both or none; the status is requested
\* at any time, at any millisecond of the clock's tick.

AckShort == T(484)
AckLong == T(488)
AckMaxTicks == 5400            \* 21.6 s of clock
AckLastArrival == 4130         \* the relay's messages arrive up to 16.5 s

AckMsgs ==
    { NoMsg,
      Msg(TRUE, 1, "ON"), Msg(TRUE, 0, "OFF"),
      Msg(TRUE, 1, ""), Msg(TRUE, 0, ""),
      Msg(TRUE, 0 - 1, "ON"), Msg(TRUE, 0 - 1, "OFF"),
      Msg(TRUE, 0, "ON"),
      Msg(FALSE, 1, "ON"), Msg(TRUE, 0 - 1, "") }

AckIterate ==
    \E dt \in {HttpStep, AckShort, AckLong} :
        Iterate(dt, In(TRUE, Cold, Json(TRUE, 0 - 1, 0 - 1)), AckMaxTicks)

AckRecv == \E msg \in AckMsgs : s.millis <= AckLastArrival /\ Recv(msg)

AckStatus == \E late \in 0..3 : Status(late)

InitAck ==
    /\ s = setup(NoFile, TRUE, StaChannel, TRUE, BootTicks)
    /\ fn = NoCall

NextAck == AckIterate \/ AckRecv \/ AckStatus

SpecAck == InitAck /\ [][NextAck]_vars

\* C12: after the receipt of a message that parses, with ok true and a
\* relay field of 0 or 1, an ACK is recorded with relayOn true exactly when
\* relay is 1, and the time of the receipt.
AckRecordsRelay ==
    s.ev.recv /\ s.ev.rx.json /\ s.ev.rx.ok /\ s.ev.rx.relay \in {0, 1} =>
        /\ s.g_haveAck
        /\ s.g_ackRelayOn = (s.ev.rx.relay = 1)
        /\ s.g_ackLastMs = s.millis

\* C13: after the receipt of a message with ok true, no relay field and
\* ack "ON" or "OFF", an ACK is recorded with relayOn true exactly when ack
\* is "ON", and the time of the receipt.
AckFieldAccepted ==
    s.ev.recv /\ s.ev.rx.json /\ s.ev.rx.ok /\ s.ev.rx.relay < 0
              /\ s.ev.rx.ack \in {"ON", "OFF"} =>
        /\ s.g_haveAck
        /\ s.g_ackRelayOn = (s.ev.rx.ack = "ON")
        /\ s.g_ackLastMs = s.millis

\* C30: the receipt of a message that does not parse, or has no relay
\* field, or whose ok is missing or false, leaves the recorded ACK (flag,
\* relayOn, receive time) exactly as it was, and the device running.
MalformedDropped ==
    [][ s'.ev.recv /\ (~s'.ev.rx.json \/ ~s'.ev.rx.ok \/ s'.ev.rx.relay < 0) =>
          /\ <<s'.g_haveAck, s'.g_ackRelayOn, s'.g_ackLastMs>>
               = <<s.g_haveAck, s.g_ackRelayOn, s.g_ackLastMs>>
          /\ s'.power = "run" ]_vars

\* A message with ok false dropped while an earlier ACK, relay on, is held.
DroppedAfterAck ==
    /\ s.ev.recv /\ s.ev.rx.json /\ ~s.ev.rx.ok
    /\ s.g_haveAck /\ s.g_ackRelayOn /\ s.g_ackLastMs < s.millis

\* C14: a status reply reports an ACK exactly when one was recorded; the
\* status page shows it fresh exactly when its age, the time since it was
\* recorded, is at most 5000 ms; fresh or stale, the reply's action is the
\* relayOn that was recorded.
AckFreshness ==
    s.ev.status.sent =>
        LET j == s.ev.status
        IN  /\ j.ackAvailable = (s.ack_at # NoTime)
            /\ s.ack_at = NoTime => ~ackFresh(j)
            /\ s.ack_at # NoTime =>
                  /\ ackFresh(j) = (4 * Since(s.millis, s.ack_at) + s.ev.late <= 5000)
                  /\ j.action = IF s.ack_on THEN 1 ELSE 0

\* A status reply 5001 ms after an ACK with the relay on: stale, action 1.
AckStaleReported ==
    /\ s.ev.status.sent /\ s.ack_at # NoTime
    /\ 4 * Since(s.millis, s.ack_at) + s.ev.late = 5001
    /\ ~ackFresh(s.ev.status)
    /\ s.ev.status.action = 1 /\ s.g_lastAction = 1

\* C15: an oracle request reports the recorded relayOn when an ACK exists
\* and is at most 5000 ms old, and the decision of the tick otherwise.
ReportsFreshAckOnly ==
    s.ev.http = "sent" =>
        s.ev.cald = IF s.ack_at # NoTime /\ 4 * Since(s.millis, s.ack_at) <= 5000
                    THEN s.ack_on
                    ELSE s.g_lastAction = 1

\* ---------------------------------------------------- debounced writer ----
\* saveFixedSetpointIfNeeded is called, forced or not, after the setpoint
\* has been changed to a value v (as its call site does, lines 794-797);
\* POST /api/fixed writes the record on its own (line 897); time passes in
\* steps of 10 s and 30 s.  The device boots with no record or with the
\* record {21.0, custom}.  fn holds what the calls did: their number since
\* boot; for the last call its value v, its time at, whether it was forced,
\* whether it wrote the record, what it returned, whether it left the
\* store and the bookkeeping as they were, the setpoint of the record
\* persisted before it and the time since the last physical write (NoTime
\* when there was none since boot); for the call before it pv, pat and
\* pwrote; and fs_last, the time of the last physical write.

NoWrites ==
    [calls |-> 0, v |-> NaN, at |-> NoTime, forced |-> FALSE, wrote |-> FALSE,
     ret |-> FALSE, kept |-> FALSE, persisted |-> NaN, gap |-> NoTime,
     pv |-> NaN, pat |-> NoTime, pwrote |-> FALSE, fs_last |-> NoTime]

StoredCustom ==
    [exists |-> TRUE, valid |-> TRUE, setpoint |-> ParseF32(2100),
     preset |-> "custom", enabled |-> TRUE]

WriterMaxTicks == 16000        \* 64 s of clock
WriterValues == {SP_ON_Q, ParseF32(2100)}

WriterCall ==
    \E v \in WriterValues, force \in BOOLEAN :
        /\ s.g_fixedSetpoint # v
        /\ LET a == [s EXCEPT !.ev = NoEvents, !.g_fixedSetpoint = v,
                              !.g_fixedPreset = "remote", !.g_fixedEnabled = TRUE]
               r == saveFixedSetpointIfNeeded(a, force, "ok")
           IN  /\ s' = [r EXCEPT !.ret = FALSE]
               /\ fn' = [calls |-> Inc(fn.calls), v |-> v, at |-> s.millis,
                         forced |-> force, wrote |-> r.ev.wrote, ret |-> r.ret,
                         kept |-> [r EXCEPT !.ret = FALSE] = [a EXCEPT !.ret = FALSE],
                         persisted |-> IF s.fs_fixed.exists /\ s.fs_fixed.valid
                                       THEN s.fs_fixed.setpoint ELSE NaN,
                         gap |-> IF fn.fs_last = NoTime THEN NoTime
                                 ELSE Since(s.millis, fn.fs_last),
                         pv |-> fn.v, pat |-> fn.at, pwrote |-> fn.wrote,
                         fs_last |-> IF r.ev.wrote THEN s.millis ELSE fn.fs_last]

WriterPost ==
    \E req \in {Preset("off"), Preset("on")} :
        /\ s.g_fixedSetpoint # PostedValue(req)
        /\ LET r == handlePostFixed([s EXCEPT !.ev = NoEvents], req, "ok")
           IN  /\ s' = [r EXCEPT !.ret = FALSE]
               /\ fn' = [fn EXCEPT !.fs_last = IF r.ev.wrote THEN s.millis ELSE @]

WriterWait ==
    \E dt \in {T(10000), T(30000)} :
        /\ s.millis + dt <= WriterMaxTicks
        /\ s' = [s EXCEPT !.millis = ClockAdd(@, dt), !.ev = NoEvents]
        /\ UNCHANGED fn

InitWriter ==
    /\ \E f \in {NoFile, StoredCustom} : s = setup(f, TRUE, StaChannel, TRUE, BootTicks)
    /\ fn = NoWrites

NextWriter == WriterCall \/ WriterPost \/ WriterWait

SpecWriter == InitWriter /\ [][NextWriter]_vars

\* C18: of two calls in a row with the same value, made less than 30 s
\* apart, the first writes the record and the second does not.
RepeatedValueWritesOnce ==
    fn.calls >= 2 /\ fn.v = fn.pv /\ Since(fn.at, fn.pat) < T(FS_WRITE_MIN_GAP_MS) =>
        fn.pwrote /\ ~fn.wrote

\* C19: a call after the first, made when a record is persisted and the
\* record has been written since boot, writes exactly when its value differs
\* by more than 0.05 from the persisted record's and, unless it is forced,
\* 30 s or more have passed since the last physical write; a call that does
\* not write returns true and leaves the store and the bookkeeping alone.
WriterRule ==
    fn.calls >= 2 /\ ~isnan(fn.persisted) /\ fn.gap # NoTime =>
        LET differs == 20 * Abs(fn.v - fn.persisted) > Q
            elapsed == fn.gap >= T(FS_WRITE_MIN_GAP_MS)
        IN  /\ fn.wrote = (differs /\ (fn.forced \/ elapsed))
            /\ ~fn.wrote => fn.ret /\ fn.kept

\* C20: the first call after boot writes the record.
FirstCallWrites == fn.calls = 1 => fn.wrote

\* ------------------------------------------------------- connectivity ----
\* The loop with the station link dropping and coming back on either of two
\* channels, after a boot in which the association succeeds or times out
\* and the soft access point starts or fails to, over more than the 120 s
\* of the station retry period.

ConnShort == T(2004)           \* passes the control gate and the AP check
ConnLong == T(58000)
ConnMaxTicks == 36000
ConnFine == 1002               \* short iterations are made within this time of a long one
OtherChannel == 11
ConnChannels == {StaChannel, OtherChannel}

ConnIterate == Iterate(ConnLong, In(TRUE, Cold, NoResp), ConnMaxTicks)

ConnShortIterate ==
    /\ ((s.millis - BootTicks) % ConnLong) + ConnShort <= ConnFine
    /\ Iterate(ConnShort, In(TRUE, Cold, NoResp), ConnMaxTicks)

ConnLinkUp == \E ch \in ConnChannels : LinkUp(ch)

InitConn ==
    /\ \E link \in {0, StaChannel} : \E apOk \in BOOLEAN :
           s = setup(NoFile, TRUE, link, apOk, BootTicks)
    /\ fn = NoCall

NextConn == ConnIterate \/ ConnShortIterate \/ ConnLinkUp \/ LinkDown

SpecConn == InitConn /\ [][NextConn]_vars

\* C21: an iteration of the loop runs the mDNS/OTA bootstrap exactly when
\* the station is up and was not up when the program last looked (at the
\* end of connectWiFi() in setup(), or in the iteration before).
BootstrapOncePerEdge ==
    [][ s'.ev.loop /\ s'.millis # s.millis =>
          (s'.ev.bootstrap <=> (s.wifi_link > 0 /\ ~s.link_seen)) ]_vars

\* C22: when setup() returns with the station not associated, the fallback
\* has been started in it, and if WiFi.softAP succeeded the access point is
\* up, flagged active, in AP+STA mode on channel 1.
BootFallback ==
    s.ev.boot /\ s.wifi_link = 0 =>
        /\ s.ev.softap # "none"
        /\ s.ev.softap = "ok" =>
             /\ s.g_apActive /\ s.ap_running
             /\ s.wifi_mode = "AP_STA" /\ s.radio_ch = AP_CHANNEL

\* The device out of setup() on the fallback access point.
BootedOnFallback == s.ev.boot /\ s.wifi_link = 0 /\ s.ap_running /\ s.ap_starts = 1

\* C23: an iteration that retries the station association while the
\* fallback is flagged active leaves the access point up and the radio in
\* AP+STA mode.
RetryKeepsAp ==
    s.ev.retry /\ s.g_apActive => s.ap_running /\ s.wifi_mode = "AP_STA"

\* C24: the soft access point is started at most once.
ApStartedOnce == s.ap_starts <= 1

\* C25: at every send, with the station up or the access point running,
\* the radio and the peer entry are on the connectivity channel: that of
\* the station's access point, else channel 1 of the fallback.
ChannelDiscipline ==
    s.ev.tick /\ s.tx_last = s.millis /\ (s.wifi_link > 0 \/ s.ap_running) =>
        LET ch == IF s.wifi_link > 0 THEN s.wifi_link ELSE AP_CHANNEL
        IN  s.radio_ch = ch /\ s.peer_ch = ch

\* C26: after an iteration that saw the station down, and in which
\* WiFi.softAP did not fail, the fallback is flagged active and the access
\* point is up; the iteration ran its control tick if the gate was passed.
DownMeansApUp ==
    s.ev.loop /\ s.wifi_link = 0 /\ s.ev.softap # "failed" =>
        s.g_apActive /\ s.ap_running

\* C36: the AP-active flag is true exactly when the soft access point is
\* running.
ApFlagConsistent == s.g_apActive <=> s.ap_running

\* ------------------------------------------------- the setpoint store ----
\* Boots from every kind of record, POSTs with every kind of body and
\* oracle responses with setpoints inside, at the ends of and outside the
\* range, with the chip waking from deep sleep on the record it wrote.

Record(sp, pr, en) ==
    [exists |-> TRUE, valid |-> TRUE, setpoint |-> sp, preset |-> pr, enabled |-> en]

FixedFiles ==
    { NoFile,
      [NoFile EXCEPT !.exists = TRUE],                  \* not JSON
      Record(NaN, "custom", TRUE),                      \* no setpoint key
      Record(ParseF32(499), "custom", TRUE),
      Record(ParseF32(500), "custom", TRUE),
      Record(ParseF32(3500), "custom", FALSE),
      Record(ParseF32(3501), "custom", TRUE),
      Record(0, "off", TRUE),
      Record(ParseF32(4000), "", TRUE) }

Body(p, c) == [kind |-> "json", preset |-> p, setpoint |-> c]

FixedReqs ==
    { [NoReq EXCEPT !.kind = "nobody"], [NoReq EXCEPT !.kind = "parse"],
      Preset("off"), Preset("on"), Preset("away"), Preset("bogus"),
      Custom(0 - 1), Custom(0), Custom(499), Custom(500), Custom(2105),
      Custom(3500), Custom(3501),
      Body("bogus", 2100), Body("away", 2100), Body("on", 4000) }

FixedResps ==
    { NoResp, Json(TRUE, 0 - 1, 1800), Json(TRUE, 499, 1800), Json(TRUE, 500, 1800),
      Json(TRUE, 3500, 1800), Json(TRUE, 3501, 1800), Json(TRUE, 0, 1800) }

FixedMaxTicks == 4800

FixedIterate ==
    \E rsp \in FixedResps : Iterate(HttpStep, In(TRUE, Cold, rsp), FixedMaxTicks)

FixedPost == \E req \in FixedReqs : PostFixed(req, "ok")

FixedWake == Wake(TRUE, StaChannel, TRUE, BootTicks)

InitFixed ==
    /\ \E f \in FixedFiles : s = setup(f, TRUE, StaChannel, TRUE, BootTicks)
    /\ fn = NoCall

NextFixed == FixedIterate \/ FixedPost \/ FixedWake

SpecFixed == InitFixed /\ [][NextFixed]_vars

PresetNames == {"off", "on", "away"}

\* C27: a POST with a JSON body is answered 422 exactly when the body has
\* neither one of the presets off, on, away nor a numeric setpoint within
\* [5, 35]; a POST answered 400 or 422 leaves the setpoint state and the
\* persisted record as they were.
RejectionRule ==
    [][ s'.ev.post =>
          LET r == s'.ev.req
              valid == \/ r.preset \in PresetNames
                       \/ (r.setpoint >= 500 /\ r.setpoint <= 3500)
          IN  /\ r.kind = "json" => (s'.web.status = 422 <=> ~valid)
              /\ s'.web.status \in {400, 422} =>
                   /\ SetpointState(s') = SetpointState(s)
                   /\ s'.fs_fixed = s.fs_fixed ]_vars

\* C28: after a POST whose body names one of the presets, or has no preset
\* and a numeric setpoint within [5, 35], the setpoint state is the preset's
\* value under its name, or the posted value under "custom", enabled; the
\* record written holds that state and the reply is 200 with the same
\* setpoint, preset and enabled (the filesystem write succeeding).
PostApplies ==
    s.ev.post /\ s.ev.req.kind = "json" =>
        LET r == s.ev.req
            byPreset == r.preset \in PresetNames
            byValue == r.preset = "" /\ r.setpoint >= 500 /\ r.setpoint <= 3500
            v == IF r.preset = "off" THEN 10 * Q
                 ELSE IF r.preset = "on" THEN 19 * Q
                 ELSE IF r.preset = "away" THEN 15 * Q
                 ELSE ParseF32(r.setpoint)
            p == IF byPreset THEN r.preset ELSE "custom"
        IN  byPreset \/ byValue =>
              /\ SetpointState(s) = <<v, p, TRUE>>
              /\ s.ev.wrote
              /\ s.fs_fixed = Record(v, p, TRUE)
              /\ s.web = [status |-> 200, ok |-> TRUE, setpoint |-> v,
                          preset |-> p, enabled |-> TRUE]

\* A numeric setpoint applied: 21.05 posted onto a state that was not custom.
CustomPosted ==
    /\ s.ev.post /\ s.ev.req = Custom(2105)
    /\ s.web.status = 200 /\ s.g_fixedPreset = "custom"
    /\ s.fs_fixed.setpoint = ParseF32(2105)

\* C29: the in-memory setpoint is within [5, 35] in every state.
SetpointInRange ==
    s.g_fixedSetpoint >= SP_MIN_Q /\ s.g_fixedSetpoint <= SP_MAX_Q

\* Booted on the default from a record whose setpoint is above the range.
LoadedOutOfRange ==
    /\ s.ev.boot /\ s.fs_fixed.valid /\ s.fs_fixed.setpoint > SP_MAX_Q
    /\ s.g_fixedSetpoint = SP_ON_Q


\* ------------------------------------------------ failing filesystem ----
\* Oracle adoptions and POSTs whose write of the record succeeds, fails at
\* the open (the file is left as it was) or fails after it (the file is
\* left truncated).

FailIos == {"ok", "openfail", "writefail"}
FailMaxTicks == 5200
FailResps == {Json(TRUE, 1900, 1800), Json(TRUE, 2100, 1800)}

FailIterate ==
    \E rsp \in FailResps, io \in FailIos :
        Iterate(HttpStep, [In(TRUE, Cold, rsp) EXCEPT !.io = io], FailMaxTicks)

FailPost ==
    \E req \in {Preset("away"), Custom(2100)}, io \in FailIos :
        /\ s.g_fixedSetpoint # PostedValue(req)
        /\ PostFixed(req, io)

InitFail ==
    /\ \E f \in {NoFile, StoredCustom} : s = setup(f, TRUE, StaChannel, TRUE, BootTicks)
    /\ fn = NoCall

NextFail == FailIterate \/ FailPost

SpecFail == InitFail /\ [][NextFail]_vars

WrapLead == 1400000
WrapTail == 300000

WrapStep(r) ==
    /\ s.power = "run"
    /\ s' = loop([s EXCEPT !.millis = ClockAdd(@, UpdateStep)], In(TRUE, r, NoResp))
    /\ fn' = [wrapped |-> fn.wrapped \/ s.millis + UpdateStep >= ClockMod]

WrapCruise ==
    /\ ~fn.wrapped /\ s.millis < ClockMod - WrapLead
    /\ WrapStep(Hot)

WrapIterate ==
    /\ fn.wrapped \/ s.millis >= ClockMod - WrapLead
    /\ fn.wrapped => s.millis + UpdateStep <= WrapTail
    /\ \E r \in {Cold, Hot} : WrapStep(r)

InitWrap ==
    /\ s = setup(NoFile, TRUE, 0, TRUE, BootTicks)
    /\ fn = [wrapped |-> FALSE]

NextWrap == WrapCruise \/ WrapIterate

SpecWrap == InitWrap /\ [][NextWrap]_vars

\* C34: no control tick sends ON less than 1800 s after the watchdog
\* tripped, the clock wrapping round in between or not.
CooldownAcrossWrap ==
    [][ s'.ev.tick /\ s.trip_at # NoTime /\ s'.tx_val = "ON" =>
          Since(s'.millis, s.trip_at) >= T(WATCHDOG_OFF_MS) ]_vars

\* ---------------------------------------------- the setpoint's frame ----
\* Every operation of the running device: iterations whose oracle round
\* trip fails, does not adopt or adopts, POSTs accepted and rejected, GETs,
\* ACKs received, the station link going and coming, wakes from deep sleep.

FrameMaxTicks == 5200
FrameResps ==
    { NoResp, Json(TRUE, 0 - 1, 1800), Json(FALSE, 2200, 1800),
      Json(TRUE, 3600, 1800), Json(TRUE, 1000, 1800) }
FrameReqs ==
    { [NoReq EXCEPT !.kind = "parse"], Preset("bogus"), Custom(3600), Custom(2250) }

FrameIterate ==
    \E rsp \in FrameResps : Iterate(HttpStep, In(TRUE, Cold, rsp), FrameMaxTicks)

FramePost == \E req \in FrameReqs : PostFixed(req, "ok")

FrameRecv == \E msg \in {Msg(TRUE, 1, "ON")} : Recv(msg)

FrameStatus == Status(0)

FrameLinkUp == LinkUp(StaChannel)

FrameWake == Wake(TRUE, StaChannel, TRUE, BootTicks)

InitFrame ==
    /\ s = setup(NoFile, TRUE, StaChannel, TRUE, BootTicks)
    /\ fn = NoCall

NextFrame ==
    \/ FrameIterate \/ FramePost \/ GetFixed \/ FrameRecv \/ FrameStatus
    \/ FrameLinkUp \/ LinkDown \/ FrameWake

SpecFrame == InitFrame /\ [][NextFrame]_vars

\* C35: a step of the running device changes the setpoint state only if it
\* is a POST /api/fixed that was accepted or an iteration that adopted the
\* oracle's setpoint, and makes the preset "remote" only if it adopted.
SetpointFrame ==
    [][ ~s'.ev.boot =>
          /\ SetpointState(s') # SetpointState(s) =>
               \/ s'.ev.post /\ s'.web.status \in {200, 500}
               \/ s'.ev.adopted
          /\ s'.g_fixedPreset = "remote" /\ s.g_fixedPreset # "remote" => s'.ev.adopted ]_vars

\* An ACK recorded while a posted custom setpoint is held.
HeldAcrossAck ==
    /\ s.ev.recv /\ s.g_haveAck /\ s.g_ackLastMs = s.millis
    /\ s.g_fixedPreset = "custom" /\ s.g_fixedSetpoint = ParseF32(2250)

====
